---- MODULE Spec2Model ----
(***************************************************************************)
(* Model of the ice-core resampler (CCI-IceCoreDataResampler/Resample.py): *)
(* set_resample's batch loop over (key column x increment), set_index,     *)
(* resample (grid generation, window means, empty-window list), the       *)
(* sparse-region detector check_resample, and the final reversal and      *)
(* truncation of the resampled table.                                     *)
(*                                                                         *)
(* Numbers on the key axis are held as integers in units of 1/Scale, so    *)
(* that non-integer keys and increments are exact (Num(n) is the number n).*)
(* A cell of a table is <<>> (NaN, no value) or <<v>>.  A mean is <<>> or   *)
(* the reduced fraction <<numerator, denominator>>.                        *)
(***************************************************************************)
EXTENDS Integers, Sequences, FiniteSets

VARIABLES
    raw_data_input, \* the table read from the file: never modified
    by,             \* set_resample's list of key columns
    inc_amt,        \* set_resample's list of increment amounts
    bi, ii,         \* positions of the two for loops of set_resample
    pc,             \* position in the program
    raw_data,       \* set_index's result for the current combination
    top, bot,       \* resample: int(min(index)), int(max(index))
    range_list,     \* resample: the grid, as frange has yielded it so far
    df_new,         \* resample: one row of means per grid point
    n_idx,          \* resample: grid points whose row is all NaN
    end,            \* resample: check_resample's result, <<>> for None
    resampled,      \* the table resample returned
    outputs         \* what was handed to the output step, in order

vars == <<raw_data_input, by, inc_amt, bi, ii, pc, raw_data, top, bot,
          range_list, df_new, n_idx, end, resampled, outputs>>

locals == <<top, bot, range_list, df_new, n_idx, end>>

----------------------------------------------------------------------------
(* Bounds of the model *)

Scale == 2
MaxRows == 3
MaxGrid == 12
MaxBatchRows == 2
MaxIncs == 2

(* check_resample's run length *)
RunLength == 5

----------------------------------------------------------------------------
(* Numbers, cells and fractions *)

NaN == <<>>
None == <<>>
Num(n) == n * Scale

Abs(n) == IF n < 0 THEN -n ELSE n

RECURSIVE Gcd(_, _)
Gcd(a, b) == IF b = 0 THEN a ELSE Gcd(b, a % b)

Frac(s, c) == LET g == Gcd(Abs(s), c) IN <<s \div g, c \div g>>

\* the sum of column f of the rows at the positions J
RECURSIVE column_sum(_, _, _)
column_sum(rows, J, f) ==
    IF J = {} THEN 0
    ELSE LET j == CHOOSE p \in J : TRUE
         IN rows[j][f][1] + column_sum(rows, J \ {j}, f)

SetMin(S) == CHOOSE x \in S : \A y \in S : x <= y
SetMax(S) == CHOOSE x \in S : \A y \in S : x >= y

Reverse(s) == [j \in 1..Len(s) |-> s[Len(s) + 1 - j]]

----------------------------------------------------------------------------
(* Tables.  A DataFrame is its index name (the empty string for None), its *)
(* index (one cell per row), its data columns and its rows.                *)

RangeIndex(n) == [j \in 1..n |-> <<Num(j - 1)>>]

DataFrame(columns, rows) ==
    [name |-> "", index |-> RangeIndex(Len(rows)), columns |-> columns, rows |-> rows]

NoFrame == [name |-> "", index |-> <<>>, columns |-> {}, rows |-> <<>>]

\* int(): truncation toward zero
intFloor(k) == (k \div Scale) * Scale
int(k) == IF k >= 0 THEN (k \div Scale) * Scale ELSE -(((-k) \div Scale) * Scale)

\* df.set_index(by) inside try/except: a missing column leaves df as it is
set_index(df, b) ==
    IF df.name = b THEN df
    ELSE IF b \in df.columns
         THEN [name |-> b,
               index |-> [j \in 1..Len(df.rows) |-> df.rows[j][b]],
               columns |-> df.columns \ {b},
               rows |-> df.rows]
         ELSE df

\* the keys df.index.min() and df.index.max() range over: NaN is skipped
IndexValues(df) == {df.index[j][1] : j \in {p \in 1..Len(df.index) : df.index[p] # NaN}}

\* df[(df.index >= i-inc) & (df.index < i+inc)] with inc = inc_amt/2, as the
\* set of row positions selected (both sides doubled to keep integers)
windowClosed(df, i, inc) ==
    {j \in 1..Len(df.index) :
        /\ df.index[j] # NaN
        /\ 2 * df.index[j][1] >= 2 * i - inc
        /\ 2 * df.index[j][1] <= 2 * i + inc}
window(df, i, inc) ==
    {j \in 1..Len(df.index) :
        /\ df.index[j] # NaN
        /\ 2 * df.index[j][1] >= 2 * i - inc
        /\ 2 * df.index[j][1] < 2 * i + inc}

\* idx.mean() for one column: NaN cells are skipped, no cell left is NaN
mean_over_all_rows(df, J, f) ==
    LET present == {j \in J : df.rows[j][f] # NaN}
    IN IF present = {} THEN NaN
       ELSE Frac(column_sum(df.rows, present, f), Cardinality(J))
mean(df, J, f) ==
    LET present == {j \in J : df.rows[j][f] # NaN}
    IN IF present = {} THEN NaN
       ELSE Frac(column_sum(df.rows, present, f), Cardinality(present))

row_mean(df, J) == [f \in df.columns |-> mean(df, J, f)]

\* idx.mean().isnull().all()
all_null(row) == \A f \in DOMAIN row : row[f] = NaN

\* n_idx after the loop: the grid points, in grid order, whose row is all NaN
empty_windows_prepended(df, grid, inc) ==
    Reverse(SelectSeq(grid, LAMBDA i : all_null(row_mean(df, window(df, i, inc)))))
empty_windows(df, grid, inc) ==
    SelectSeq(grid, LAMBDA i : all_null(row_mean(df, window(df, i, inc))))

\* range(top, bot, inc_amt) of scripts/Resample.py: integers only, bot excluded
RECURSIVE range(_, _, _)
range(t, b, step) ==
    IF t >= b THEN <<>> ELSE <<t>> \o range(t + step, b, step)

----------------------------------------------------------------------------
(* check_resample: the loop over range(1, len(n_idx)-1) of the reversed    *)
(* list; position p here is Python's i+1.                                  *)

RECURSIVE check_loop(_, _, _, _)
check_loop(r, inc, p, z) ==
    IF p > Len(r) - 1 THEN None
    ELSE IF r[p] + inc = r[p - 1]
         THEN IF z + 1 = RunLength THEN <<r[p]>>
              ELSE check_loop(r, inc, p + 1, z + 1)
         ELSE check_loop(r, inc, p + 1, z)

check_resample(r, inc) == check_loop(r, inc, 2, 0)

\* df_new[::-1].loc[:end] on the index: the reversed grid, up to and
\* including the label end; everything when end is None
RECURSIVE loc_upto(_, _)
loc_upto(s, e) ==
    IF s = <<>> THEN <<>>
    ELSE IF s[1] = e THEN <<s[1]>>
         ELSE <<s[1]>> \o loc_upto(Tail(s), e)

loc_before(s, e) ==
    IF e = None THEN s ELSE SelectSeq(s, LAMBDA g : g > e[1])
loc_everything(s, e) == s
loc(s, e) ==
    IF e = None THEN s ELSE loc_upto(s, e[1])

----------------------------------------------------------------------------
(* Inputs *)

KeyCells == {<<-3>>, <<2>>, <<4>>, <<7>>}
ValCells == {NaN, <<1>>, <<2>>}
Incs == {-1, 0, 1, 2, 3}

Rows == [Depth : KeyCells, val : ValCells]
Tables == UNION {[1..n -> Rows] : n \in 0..MaxRows}

\* the table with keys 0..10 and data 1..11
ScenarioRows == [j \in 1..11 |-> [Depth |-> <<Num(j - 1)>>, val |-> <<j>>]]

BatchRows == [Depth : {NaN, <<Num(1)>>}, Year : {NaN, <<Num(3)>>}, val : {<<1>>}]
BatchTables == UNION {[1..n -> BatchRows] : n \in 0..MaxBatchRows}
ByLists == {<<>>, <<"Depth">>, <<"Year">>, <<"Depth", "Year">>, <<"Year", "Depth">>}
IncLists == UNION {[1..n -> {Num(1), Num(2)}] : n \in 1..MaxIncs}

Start ==
    /\ bi = 1 /\ ii = 1 /\ pc = "set_resample"
    /\ raw_data = NoFrame /\ resampled = NoFrame
    /\ top = 0 /\ bot = 0 /\ range_list = <<>> /\ df_new = <<>>
    /\ n_idx = <<>> /\ end = None
    /\ outputs = <<>>

\* one request: a table with a Depth column, one increment
Init ==
    /\ \/ /\ raw_data_input \in {DataFrame({"Depth", "val"}, t) : t \in Tables}
          /\ inc_amt \in {<<a>> : a \in Incs}
       \/ /\ raw_data_input = DataFrame({"Depth", "val"}, ScenarioRows)
          /\ inc_amt = <<Num(2)>>
    /\ by = <<"Depth">>
    /\ Start

\* a batch: a table with a Depth and a Year column, lists of both
InitBatch ==
    /\ raw_data_input \in {DataFrame({"Depth", "Year", "val"}, t) : t \in BatchTables}
    /\ by \in ByLists
    /\ inc_amt \in IncLists
    /\ Start

----------------------------------------------------------------------------
(* set_resample: for b in by: for i in inc_amt: ...                        *)

\* the loop heads: the next combination, or the end of both loops
set_resample ==
    /\ pc = "set_resample"
    /\ IF bi > Len(by) THEN pc' = "exit"
       ELSE pc' = "set_index"
    /\ UNCHANGED <<raw_data_input, by, inc_amt, bi, ii, raw_data, locals,
                   resampled, outputs>>

\* raw_data = set_index(raw_data_input, b)
set_index_call ==
    /\ pc = "set_index"
    /\ raw_data' = set_index(raw_data_input, by[bi])
    /\ pc' = "resample"
    /\ UNCHANGED <<raw_data_input, by, inc_amt, bi, ii, locals, resampled, outputs>>

\* resample, up to the call of frange: int() of a NaN minimum (no key at
\* all) raises ValueError, which nothing catches
resample_begin ==
    /\ pc = "resample"
    /\ IF IndexValues(raw_data) = {}
       THEN /\ pc' = "raised"
            /\ UNCHANGED <<top, bot>>
       ELSE /\ top' = int(SetMin(IndexValues(raw_data)))
            /\ bot' = int(SetMax(IndexValues(raw_data)))
            /\ pc' = "frange"
    /\ range_list' = <<>> /\ df_new' = <<>> /\ n_idx' = <<>> /\ end' = None
    /\ UNCHANGED <<raw_data_input, by, inc_amt, bi, ii, raw_data, resampled, outputs>>

\* frange(top, bot, inc_amt): the next point, top + n*inc_amt, while <= bot
frange_point(n) == top + n * inc_amt[ii]

frange_yield ==
    /\ pc = "frange"
    /\ Len(range_list) < MaxGrid
    /\ frange_point(Len(range_list)) <= bot
    /\ range_list' = Append(range_list, frange_point(Len(range_list)))
    /\ UNCHANGED <<raw_data_input, by, inc_amt, bi, ii, pc, raw_data, top, bot,
                   df_new, n_idx, end, resampled, outputs>>

frange_stop ==
    /\ pc = "frange"
    /\ frange_point(Len(range_list)) > bot
    /\ pc' = "loop"
    /\ UNCHANGED <<raw_data_input, by, inc_amt, bi, ii, raw_data, locals,
                   resampled, outputs>>

\* for i in range_list: the mean of the window, and n_idx
resample_loop ==
    /\ pc = "loop"
    /\ df_new' = [j \in 1..Len(range_list) |->
                    row_mean(raw_data, window(raw_data, range_list[j], inc_amt[ii]))]
    /\ n_idx' = empty_windows(raw_data, range_list, inc_amt[ii])
    /\ pc' = "check_resample"
    /\ UNCHANGED <<raw_data_input, by, inc_amt, bi, ii, raw_data, top, bot,
                   range_list, end, resampled, outputs>>

\* end = check_resample(n_idx, inc_amt): n_idx is reversed in place
check_resample_call ==
    /\ pc = "check_resample"
    /\ n_idx' = Reverse(n_idx)
    /\ end' = check_resample(Reverse(n_idx), inc_amt[ii])
    /\ pc' = "return"
    /\ UNCHANGED <<raw_data_input, by, inc_amt, bi, ii, raw_data, top, bot,
                   range_list, df_new, resampled, outputs>>

\* set_index(range_list), index.name = by, [::-1], .loc[:end]
resample_return ==
    /\ pc = "return"
    /\ LET index == loc(Reverse(range_list), end)
           rows == Reverse(df_new)
       IN resampled' = [name |-> by[bi],
                        index |-> [j \in 1..Len(index) |-> <<index[j]>>],
                        columns |-> raw_data.columns,
                        rows |-> [j \in 1..Len(index) |-> rows[j]]]
    /\ pc' = "output"
    /\ UNCHANGED <<raw_data_input, by, inc_amt, bi, ii, raw_data, locals, outputs>>

\* create_output_filename_and_folders and output, then the next i, or b
output_call ==
    /\ pc = "output"
    /\ outputs' = Append(outputs, [by |-> by[bi], inc_amt |-> inc_amt[ii],
                                   data |-> resampled])
    /\ IF ii < Len(inc_amt)
       THEN ii' = ii + 1 /\ bi' = bi
       ELSE ii' = 1 /\ bi' = bi + 1
    /\ pc' = "set_resample"
    /\ UNCHANGED <<raw_data_input, by, inc_amt, raw_data, locals, resampled>>

Next ==
    \/ set_resample
    \/ set_index_call
    \/ resample_begin
    \/ frange_yield
    \/ frange_stop
    \/ resample_loop
    \/ check_resample_call
    \/ resample_return
    \/ output_call

Spec == Init /\ [][Next]_vars
SpecBatch == InitBatch /\ [][Next]_vars

----------------------------------------------------------------------------
(* Positions of one request, and the vocabulary of the properties          *)

inc == inc_amt[ii]
AfterFrange == pc \in {"loop", "check_resample", "return", "output"}
AfterLoop == pc \in {"check_resample", "return", "output"}
AfterCheck == pc \in {"return", "output"}

KeyMin == SetMin(IndexValues(raw_data))
KeyMax == SetMax(IndexValues(raw_data))

\* t, t+step, t+2*step, ... of all points <= b, in closed form
Grid(t, b, step) ==
    IF b < t THEN <<>> ELSE [j \in 1..((b - t) \div step + 1) |-> t + (j - 1) * step]

Floor(k) == (k \div Scale) * Scale

\* t is k with its fractional part dropped (rounded toward zero)
IsTruncation(t, k) ==
    /\ t % Scale = 0
    /\ Abs(t) <= Abs(k)
    /\ Abs(k) - Abs(t) < Scale
    /\ t * k >= 0

\* the rows of raw_data whose key lies in [g - inc/2, g + inc/2)
InWindow(g) ==
    {j \in 1..Len(raw_data.index) :
        /\ raw_data.index[j] # NaN
        /\ 2 * g - inc <= 2 * raw_data.index[j][1]
        /\ 2 * raw_data.index[j][1] < 2 * g + inc}

\* m is the arithmetic mean of column f over the rows J, NaN cells left out
IsMean(m, J, f) ==
    LET present == {j \in J : raw_data.rows[j][f] # NaN}
    IN IF present = {} THEN m = NaN
       ELSE /\ m # NaN
            /\ m[1] * Cardinality(present) = m[2] * column_sum(raw_data.rows, present, f)

\* the row equals the one record j, field by field
IsRecord(row, j) ==
    \A f \in raw_data.columns :
        row[f] = IF raw_data.rows[j][f] = NaN THEN NaN ELSE <<raw_data.rows[j][f][1], 1>>

IsExpectedRow(row, g) ==
    /\ DOMAIN row = raw_data.columns
    /\ \A f \in raw_data.columns : IsMean(row[f], InWindow(g), f)
    /\ \A j \in InWindow(g) : InWindow(g) = {j} => IsRecord(row, j)

Ascending(s) == \A a, b \in 1..Len(s) : a < b => s[a] < s[b]

\* s holds a run of k entries, each one step from the one before it
HasRun(s, step, k) ==
    \E p \in 1..(Len(s) - k + 1) :
        \A q \in 1..(k - 1) : Abs(s[p + q] - s[p + q - 1]) = step

IsScenario == raw_data_input.rows = ScenarioRows /\ inc_amt = <<Num(2)>>

----------------------------------------------------------------------------
(* The cap of the grid never cuts a grid of a positive increment short.    *)
CapNotReached == (pc = "frange" /\ inc > 0) => Len(range_list) < MaxGrid

----------------------------------------------------------------------------
(* C1, as stated: keys 0..10, data 1..11, increment 2 give the grid        *)
(* 0,2,..,10 with the means 1.5, 3.5, 5.5, 7.5, 9.5, 11, no empty window   *)
(* and no cutoff.                                                          *)
C1_ScenarioAsStated ==
    (IsScenario /\ AfterLoop) =>
        /\ range_list = [j \in 1..6 |-> Num(2 * (j - 1))]
        /\ [j \in 1..Len(df_new) |-> df_new[j].val]
             = << <<3, 2>>, <<7, 2>>, <<11, 2>>, <<15, 2>>, <<19, 2>>, <<11, 1>> >>
        /\ n_idx = <<>>
        /\ AfterCheck => end = None

(* C1, amended: the same table and increment give the grid 0,2,..,10 with  *)
(* the means 1, 2.5, 4.5, 6.5, 8.5, 10.5 (windows centred on the grid      *)
(* point), no empty window, no cutoff, and all six rows are returned.      *)
C1_Scenario ==
    (IsScenario /\ AfterLoop) =>
        /\ range_list = [j \in 1..6 |-> Num(2 * (j - 1))]
        /\ [j \in 1..Len(df_new) |-> df_new[j].val]
             = << <<1, 1>>, <<5, 2>>, <<9, 2>>, <<13, 2>>, <<17, 2>>, <<21, 2>> >>
        /\ n_idx = <<>>
        /\ AfterCheck => end = None
        /\ pc = "output" => Len(resampled.index) = 6

C1_Witness == IsScenario /\ pc = "output"

----------------------------------------------------------------------------
----------------------------------------------------------------------------
(* C3: the row of every grid point g is, field by field, the mean over     *)
(* exactly the records with g - increment/2 <= key < g + increment/2, NaN  *)
(* left out; a window of one record gives that record's values.  This      *)
(* holds of the rows as computed and of the rows of the returned table.    *)
C3_WindowMean ==
    /\ AfterLoop =>
         /\ Len(df_new) = Len(range_list)
         /\ \A j \in 1..Len(range_list) : IsExpectedRow(df_new[j], range_list[j])
    /\ pc = "output" =>
         \A j \in 1..Len(resampled.index) :
             IsExpectedRow(resampled.rows[j], resampled.index[j][1])

C3_Witness ==
    /\ pc = "output"
    /\ \E j \in 1..Len(resampled.index) :
           Cardinality(InWindow(resampled.index[j][1])) = 1
    /\ \E j \in 1..Len(resampled.index) :
           /\ Cardinality(InWindow(resampled.index[j][1])) > 1
           /\ resampled.rows[j].val = <<3, 2>>
    /\ \E j \in 1..Len(raw_data.index), g \in {range_list[q] : q \in 1..Len(range_list)} :
           2 * raw_data.index[j][1] = 2 * g - inc

----------------------------------------------------------------------------
----------------------------------------------------------------------------
(* C5, as stated: if the empty-window list holds no run of 5 consecutive   *)
(* single-step entries, check_resample returns None and the table is not   *)
(* truncated, also for several shorter runs separated by gaps.             *)
C5_NoRunNoCutoff ==
    (AfterCheck /\ inc > 0 /\ ~HasRun(n_idx, inc, RunLength)) =>
        /\ end = None
        /\ pc = "output" => Len(resampled.index) = Len(range_list)

----------------------------------------------------------------------------
(* C6, as stated, counting the run as the counter does (the counter        *)
(* reaches 5 on the 5th single-step pair, the 6th grid point of the run):  *)
(* the detector walks every adjacent pair of the reversed list, so that    *)
(* when its highest entries form such a run a cutoff is returned, and it   *)
(* is the grid point at which the counter reaches 5.                       *)
C6_RunGivesCutoff ==
    (AfterCheck /\ inc > 0 /\ Len(n_idx) >= RunLength + 1
        /\ \A q \in 2..(RunLength + 1) : n_idx[q] + inc = n_idx[q - 1]) =>
        end = <<n_idx[RunLength + 1]>>

(* C6, as stated, counting the run by its grid points: a run of 5 grid     *)
(* points at the high end gives the 5th of them as the cutoff.             *)
C6_CutoffIsFifth ==
    (AfterCheck /\ inc > 0 /\ Len(n_idx) >= RunLength
        /\ \A q \in 2..RunLength : n_idx[q] + inc = n_idx[q - 1]) =>
        end = <<n_idx[RunLength]>>

----------------------------------------------------------------------------
(* C7, as stated: when a cutoff c is found, the returned table has no row  *)
(* with a key greater than c.                                              *)
C7_NoRowBeyondCutoff ==
    (pc = "output" /\ end # None) =>
        \A j \in 1..Len(resampled.index) : resampled.index[j][1] <= end[1]

(* C7, amended: when a cutoff c is found, the returned table has no row    *)
(* with a key smaller than c; the rows dropped are those below c, and the  *)
(* row of c and the rows of all greater grid points are returned.          *)
C7_NoRowBelowCutoff ==
    (pc = "output" /\ end # None) =>
        /\ \A j \in 1..Len(resampled.index) : resampled.index[j][1] >= end[1]
        /\ \A q \in 1..Len(range_list) :
               range_list[q] > end[1] =>
                   \E j \in 1..Len(resampled.index) : resampled.index[j] = <<range_list[q]>>

C7_Witness ==
    /\ pc = "output" /\ end # None
    /\ \E q \in 1..Len(range_list) : range_list[q] < end[1]
    /\ \E j \in 1..Len(resampled.index) : resampled.index[j][1] > end[1]

----------------------------------------------------------------------------
(* C8: the returned table is in descending key order and holds exactly one *)
(* row for each grid point >= the cutoff when one is found (the cutoff's   *)
(* row included), and one row for every grid point when none is found.     *)
C8_ReturnedRows ==
    pc = "output" =>
        LET keys == [j \in 1..Len(resampled.index) |-> resampled.index[j][1]]
            kept == {range_list[j] : j \in {q \in 1..Len(range_list) :
                          end = None \/ range_list[q] >= end[1]}}
        IN /\ Len(resampled.rows) = Len(resampled.index)
           /\ \A a, b \in 1..Len(keys) : a < b => keys[a] > keys[b]
           /\ {keys[j] : j \in 1..Len(keys)} = kept
           /\ end # None => \E j \in 1..Len(keys) : keys[j] = end[1]

C8_Witness ==
    /\ pc = "output" /\ end # None
    /\ Len(resampled.index) < Len(range_list)
    /\ Len(resampled.index) > 1

----------------------------------------------------------------------------
(* C9, as stated: a request with increment <= 0 fails before any grid      *)
(* point is generated: it never reaches the grid generation, never has a   *)
(* grid point and never returns a table.                                   *)
C9_InvalidIncrementFailsFast ==
    (pc \notin {"set_resample", "set_index", "resample"} /\ inc <= 0) =>
        /\ pc = "raised"
        /\ range_list = <<>>

----------------------------------------------------------------------------
(* C10, as stated: when the batch has ended, every combination that did    *)
(* not fail itself was resampled and handed to the output step, and no     *)
(* failing combination has an output, wherever the failing one stands.     *)
Fails(b) == IndexValues(set_index(raw_data_input, b)) = {}

C10_FailureIsPerCombination ==
    pc \in {"exit", "raised"} =>
        \A p \in 1..Len(by), q \in 1..Len(inc_amt) :
            IF Fails(by[p])
            THEN \A k \in 1..Len(outputs) : outputs[k].by # by[p]
            ELSE \E k \in 1..Len(outputs) :
                     outputs[k].by = by[p] /\ outputs[k].inc_amt = inc_amt[q]

====
